---- MODULE Spec2Model ----
(***************************************************************************)
(* Server-side pipeline of the realtime chat application: the message      *)
(* store (lazy load, bounded append, debounced save), the validator, the   *)
(* connection hydration (history) and the parse -> validate -> store ->    *)
(* broadcast handler, on Node's single-threaded event loop.                *)
(*                                                                         *)
(* One action is one event-loop task: a handler runs from its trigger up   *)
(* to the first await on real I/O (fs readFile / writeFile); awaits on     *)
(* already-settled promises resume in the same task.                       *)
(***************************************************************************)
EXTENDS Integers, Sequences, FiniteSets, TLC

\* ---------------------------------------------------------------- bounds
\* the general workload (Spec); SpecOne has the same clients, rejections and
\* clock with a single accepted message
MaxConns == 2
MaxSubmits == 2
MaxRejects == 1
MaxTicks == 2
\* one client sending a burst of messages (SpecBurst)
BurstSubmits == 3
BurstTicks == 2
\* several clients, one message, transport faults, no messages file (SpecFault)
FaultConns == 3
MaxFaults == 2
\* process restarts (SpecRestart)
MaxRestarts == 1
\* direct calls of the store's methods (SpecStore): the largest count asked for
MaxCount == 3
\* disconnect events for connections that are not in the live set (SpecRegistry)
MaxStale == 2
\* 'ping' events (SpecPing)
MaxPings == 2
\* failures thrown inside handleMessage's try block (SpecFailure)
MaxFailures == 1
\* time for two debounce windows in a row (SpecFlush)
FlushTicks == 4
\* writeFile calls that fail (SpecFlush)
MaxWriteFails == 1

\* ------------------------------------------------------ program constants
MAX_CONTENT_LENGTH == 700
HISTORY_MESSAGE_COUNT == 10
DEBOUNCE_WAIT == 100
DEFAULT_MAX_MESSAGES == 10

VARIABLES
    limits,           \* the workload explored: how many connections, submissions, ticks
    maxMessages,      \* config.maxMessages
    messages,         \* MessageStore.messages
    initialized,      \* MessageStore.initialized
    timers,           \* pending setTimeout callbacks of debounce: due times
    timeout,          \* debounce's `timeout` handle is non-null
    writing,          \* writeFile calls in flight: the serialized contents
    file,             \* the durable file data/messages.json
    sockets,          \* io.sockets.sockets, in insertion order
    connected,        \* socket.connected, per connection
    connectedClients, \* WebSocketServer.connectedClients
    emitFaulty,       \* connections whose socket.emit throws
    pending,          \* handlers suspended at `await readFile`
    received,         \* events delivered to each connection's client
    now,              \* Date.now()
    nextConn,         \* next fresh connection
    nextId,           \* next fresh uuid
    submits,          \* number of send_message events handled
    appended,         \* history: messages pushed by addMessage, in order
    broadcasts,       \* history: one record per broadcastMessage call
    rejects,          \* history: one record per rejected submission
    writeCount,       \* history: number of writeFile calls issued
    lastWrite,        \* history: the content of the latest writeFile call
    burst,            \* history: the current run of appends < DEBOUNCE_WAIT apart
    startEmpty,       \* history: was the store empty at the first append
    clobbered,        \* history: a load completed after an append
    boot,             \* history: the process restarts and what the last shutdown left
    disconnectCount,  \* WebSocketServer.disconnectCount
    stale,            \* history: handleDisconnect calls for connections not in the live set
    clearing,         \* history: the call of MessageStore.clear() and its write
    query,            \* history: the direct call of getLastMessages(count) and its result
    pings,            \* history: the number of 'ping' events handled and the latest one
    failures,         \* history: one record per failure thrown inside handleMessage
    flushLog          \* history: failed writeFile calls and the time of the latest flush

vars == <<limits, maxMessages, messages, initialized, timers, timeout, writing, file,
          sockets, connected, connectedClients, emitFaulty, pending, received,
          now, nextConn, nextId, submits, appended, broadcasts, rejects,
          writeCount, lastWrite, burst, startEmpty, clobbered, boot,
          disconnectCount, stale, clearing, query, pings, failures, flushLog>>

\* ----------------------------------------------------------------- strings
\* A string is a sequence of one-character strings.
IsWS(ch) == ch \in {" ", "\t", "\n"}

Min(a, b) == IF a < b THEN a ELSE b

FirstNonWS(s) ==
    IF \E i \in 1..Len(s) : ~IsWS(s[i])
    THEN CHOOSE i \in 1..Len(s) : ~IsWS(s[i]) /\ \A j \in 1..(i-1) : IsWS(s[j])
    ELSE Len(s) + 1

LastNonWS(s) ==
    IF \E i \in 1..Len(s) : ~IsWS(s[i])
    THEN CHOOSE i \in 1..Len(s) : ~IsWS(s[i]) /\ \A j \in (i+1)..Len(s) : IsWS(s[j])
    ELSE 0

\* String.prototype.trim
Trim(s) == SubSeq(s, FirstNonWS(s), LastNonWS(s))

Repeat(ch, n) == [i \in 1..n |-> ch]

\* --------------------------------------------------------------- JS values
Str(s) == [t |-> "string", s |-> s, n |-> 0]
Num(n) == [t |-> "number", s |-> <<>>, n |-> n]
Undefined == [t |-> "undefined", s |-> <<>>, n |-> 0]
StrArray == [t |-> "string_array", s |-> <<>>, n |-> 0]

\* The value handed to the 'send_message' listener: either a JS value or a
\* string to be JSON.parse'd (json_ok: the parse succeeds, giving `value`).
Obj(type, payloadIsObj, user, content) ==
    [t |-> "object", type |-> type, payloadIsObj |-> payloadIsObj,
     user |-> user, content |-> content, timestamp |-> Undefined,
     userId |-> Undefined, messageIds |-> Undefined, id |-> Undefined]

Raw(isString, json_ok, value) ==
    [isString |-> isString, json_ok |-> json_ok, value |-> value]

NonObject(t) ==
    [t |-> t, type |-> Undefined, payloadIsObj |-> FALSE,
     user |-> Undefined, content |-> Undefined, timestamp |-> Undefined,
     userId |-> Undefined, messageIds |-> Undefined, id |-> Undefined]

SendMessage(user, content) == Obj(Str("send_message"), TRUE, Str(user), Str(content))

PingEvent == [Obj(Str("ping"), TRUE, Undefined, Undefined) EXCEPT !.timestamp = Num(5)]

JoinRoom == [Obj(Str("join_room"), TRUE, Undefined, Undefined) EXCEPT !.userId = Str(<<"u">>)]

ReadMessages ==
    [Obj(Str("read_messages"), TRUE, Undefined, Undefined)
        EXCEPT !.userId = Str(<<"u">>), !.messageIds = StrArray]

\* the payloads the model submits
RawInputs ==
    << Raw(FALSE, TRUE, SendMessage(<<" ", "b", "o", "b", " ">>, <<" ", "h", " ", "i", "\t">>)),
       Raw(FALSE, TRUE, PingEvent),
       Raw(FALSE, TRUE, SendMessage(<<" ", " ">>, Repeat("x", MAX_CONTENT_LENGTH + 1))),
       Raw(FALSE, TRUE, SendMessage(<<"a">>, <<" ">>)),
       Raw(FALSE, TRUE, SendMessage(<<"a">>, Repeat("x", MAX_CONTENT_LENGTH + 1))),
       Raw(TRUE,  FALSE, NonObject("undefined")),
       \* content of exactly the maximum length; the same padded by one blank
       Raw(FALSE, TRUE, SendMessage(<<"a">>, Repeat("x", MAX_CONTENT_LENGTH))),
       Raw(FALSE, TRUE, SendMessage(<<"a">>, <<" ">> \o Repeat("x", MAX_CONTENT_LENGTH))),
       \* a JSON string of a well-formed send_message
       Raw(TRUE,  TRUE, SendMessage(<<"a", "m", "y">>, <<"y", " ", " ", "o">>)),
       \* a number, null, a JSON string of a number
       Raw(FALSE, TRUE, NonObject("number")),
       Raw(FALSE, TRUE, NonObject("null")),
       Raw(TRUE,  TRUE, NonObject("number")),
       \* objects without a string type, without an object payload, with a
       \* non-string user, of an unknown type
       Raw(FALSE, TRUE, Obj(Num(1), TRUE, Str(<<"a">>), Str(<<"h">>))),
       Raw(FALSE, TRUE, Obj(Str("send_message"), FALSE, Undefined, Undefined)),
       Raw(FALSE, TRUE, Obj(Str("send_message"), TRUE, Num(7), Str(<<"h">>))),
       Raw(FALSE, TRUE, Obj(Str("typing"), TRUE, Str(<<"a">>), Str(<<"h">>))),
       \* well-formed events of the other recognised types, two of them
       \* carrying a message-like payload as well
       Raw(FALSE, TRUE, JoinRoom),
       Raw(FALSE, TRUE, ReadMessages),
       Raw(FALSE, TRUE, [PingEvent EXCEPT !.user = Str(<<"a">>), !.content = Str(<<"h">>)]),
       Raw(FALSE, TRUE, [JoinRoom EXCEPT !.user = Str(<<>>),
                                         !.content = Str(Repeat("x", MAX_CONTENT_LENGTH + 1))]),
       \* the first payload again, with an id, a timestamp and a further key
       \* of the client's own
       Raw(FALSE, TRUE, [SendMessage(<<" ", "b", "o", "b", " ">>, <<" ", "h", " ", "i", "\t">>)
                            EXCEPT !.id = Num(77), !.timestamp = Num(5),
                                   !.userId = Str(<<"u">>)]) >>

\* the payloads of the general workloads; InputCatalogue is all of them
CommonInputs == 1..6
InputCatalogue == 1..Len(RawInputs)

\* ----------------------------------------------------------------- config
\* parseInt(process.env.MAX_MESSAGES || '10'), then the < 1 fallback
ConfigMaxMessages(parsed) ==
    IF parsed < 1 THEN DEFAULT_MAX_MESSAGES ELSE parsed

\* the deployments explored: MAX_MESSAGES of the environment and the durable
\* file left by an earlier run under the same setting
Deployments ==
    { [env |-> 2, file |-> [kind |-> "absent", elems |-> <<>>]],
      [env |-> 2, file |-> [kind |-> "not_json", elems |-> <<>>]],
      [env |-> 2, file |-> [kind |-> "array", elems |->
          << [id |-> 101, user |-> <<"f">>, content |-> <<"h">>, timestamp |-> 1] >>]],
      [env |-> HISTORY_MESSAGE_COUNT + 1, file |-> [kind |-> "array", elems |->
          [i \in 1..(HISTORY_MESSAGE_COUNT + 1) |->
              [id |-> 100 + i, user |-> <<"f">>, content |-> <<"h">>, timestamp |-> i]]]] }

\* durable files the server did not write under its current setting: one it
\* cannot read, JSON that is not an array, an array with an element failing
\* the shape check, more messages than MAX_MESSAGES (written under a larger
\* setting), and shape-valid elements no validated submission produces
ForeignDeployments ==
    { [env |-> 2, file |-> [kind |-> "unreadable", elems |-> <<>>]],
      [env |-> 2, file |-> [kind |-> "not_array", elems |-> <<>>]],
      [env |-> 2, file |-> [kind |-> "array", elems |->
          << [id |-> 101, user |-> <<"f">>, content |-> <<"h">>, timestamp |-> 1],
             [id |-> 102, user |-> <<"f">>, content |-> <<"h">>, timestamp |-> 0] >>]],
      [env |-> 2, file |-> [kind |-> "array", elems |->
          [i \in 1..3 |->
              [id |-> 100 + i, user |-> <<"f">>, content |-> <<"h">>, timestamp |-> i]]]],
      [env |-> 2, file |-> [kind |-> "array", elems |->
          << [id |-> 101, user |-> <<" ">>, content |-> <<>>, timestamp |-> 1] >>]] }

\* --------------------------------------------------------------- validator
NoError == [code |-> "", field |-> ""]
Err(code, field) == [code |-> code, field |-> field]

\* validateMessage with the length rule moved ahead of the user rule
validateMessage_LengthFirst(event) ==
    IF event.type # Str("send_message")
    THEN Err("INVALID_EVENT_TYPE", "")
    ELSE IF event.content.t = "string" /\ Len(event.content.s) > MAX_CONTENT_LENGTH
    THEN Err("CONTENT_TOO_LONG", "content")
    ELSE IF event.user.t # "string" \/ Len(event.user.s) = 0
            \/ Len(Trim(event.user.s)) = 0
    THEN Err("INVALID_USER", "user")
    ELSE IF event.content.t # "string" \/ Len(event.content.s) = 0
            \/ Len(Trim(event.content.s)) = 0
    THEN Err("INVALID_CONTENT", "content")
    ELSE NoError

\* validateMessage rejecting content of exactly the maximum length
validateMessage_MaxExcluded(event) ==
    IF event.type # Str("send_message")
    THEN Err("INVALID_EVENT_TYPE", "")
    ELSE IF event.user.t # "string" \/ Len(event.user.s) = 0
            \/ Len(Trim(event.user.s)) = 0
    THEN Err("INVALID_USER", "user")
    ELSE IF event.content.t # "string" \/ Len(event.content.s) = 0
            \/ Len(Trim(event.content.s)) = 0
    THEN Err("INVALID_CONTENT", "content")
    ELSE IF Len(event.content.s) >= MAX_CONTENT_LENGTH
    THEN Err("CONTENT_TOO_LONG", "content")
    ELSE NoError

\* validateMessage: the error of the first failing rule, NoError if valid
validateMessage(event) ==
    IF event.type # Str("send_message")
    THEN Err("INVALID_EVENT_TYPE", "")
    ELSE IF event.user.t # "string" \/ Len(event.user.s) = 0
            \/ Len(Trim(event.user.s)) = 0
    THEN Err("INVALID_USER", "user")
    ELSE IF event.content.t # "string" \/ Len(event.content.s) = 0
            \/ Len(Trim(event.content.s)) = 0
    THEN Err("INVALID_CONTENT", "content")
    ELSE IF Len(event.content.s) > MAX_CONTENT_LENGTH
    THEN Err("CONTENT_TOO_LONG", "content")
    ELSE NoError

\* sanitizeMessage removing the leading whitespace only
sanitizeMessage_TrimStart(event) ==
    IF event.type = Str("send_message")
    THEN [event EXCEPT !.user = Str(SubSeq(event.user.s, FirstNonWS(event.user.s),
                                           Len(event.user.s))),
                       !.content = Str(SubSeq(event.content.s, FirstNonWS(event.content.s),
                                              Len(event.content.s)))]
    ELSE event

\* sanitizeMessage: trims user and content of a send_message event
sanitizeMessage(event) ==
    IF event.type = Str("send_message")
    THEN [event EXCEPT !.user = Str(Trim(event.user.s)),
                       !.content = Str(Trim(event.content.s))]
    ELSE event

\* isValidClientEvent
isValidClientEvent(v) ==
    /\ v.t = "object"
    /\ v.type.t = "string"
    /\ v.payloadIsObj
    /\ CASE v.type.s = "send_message" -> v.user.t = "string" /\ v.content.t = "string"
         [] v.type.s = "read_messages" ->
                v.messageIds.t = "string_array" /\ v.userId.t = "string"
         [] v.type.s \in {"join_room", "leave_room"} -> v.userId.t = "string"
         [] v.type.s = "ping" -> v.timestamp.t = "number"
         [] OTHER -> FALSE

\* parseMessageData returning whatever JSON.parse gives, without the shape check
parseMessageData_NoShapeCheck(data) == data.isString => data.json_ok

\* parseMessageData: TRUE iff it returns an event (not null)
parseMessageData(data) ==
    /\ data.isString => data.json_ok
    /\ isValidClientEvent(data.value)

\* handleMessage's parse and validation steps, for each payload of RawInputs
InputError ==
    [k \in 1..Len(RawInputs) |->
        IF parseMessageData(RawInputs[k])
        THEN validateMessage(RawInputs[k].value)
        ELSE Err("PARSE_ERROR", "")]

\* handleMessage's sanitize step, for each payload of RawInputs
Sanitized == [k \in 1..Len(RawInputs) |-> sanitizeMessage(RawInputs[k].value)]

\* ------------------------------------------------------------------- store
NoMsg == [id |-> 0, user |-> <<>>, content |-> <<>>, timestamp |-> 0]

\* the durable file holding JSON.stringify(ms)
FileArray(ms) == [kind |-> "array", elems |-> ms]

\* isValidMessage (ids, users and contents are strings by construction)
isValidMessage(m) == m.timestamp > 0

\* loadMessages keeping the shape-valid elements of a damaged array
LoadResult_KeepValid(f) ==
    IF f.kind = "array" THEN SelectSeq(f.elems, isValidMessage) ELSE <<>>

\* loadMessages, after `await readFile`: the sequence installed as this.messages
LoadResult(f) ==
    IF f.kind = "array" /\ \A i \in 1..Len(f.elems) : isValidMessage(f.elems[i])
    THEN f.elems
    ELSE <<>>

\* loadMessages returns without awaiting I/O: already initialized, or no file
LoadIsSync == initialized \/ file.kind = "absent"

RECURSIVE ShiftWhile(_, _)
ShiftWhile(s, n) == IF Len(s) > n THEN ShiftWhile(Tail(s), n) ELSE s

\* addMessage trimming at the wrong end: keeps the first n instead of the last n
addMessage_KeepOldest(msgs, m, n) ==
    SubSeq(Append(msgs, m), 1, Min(Len(msgs) + 1, n))

\* addMessage evicting the second oldest message instead of the oldest
addMessage_EvictSecond(msgs, m, n) ==
    LET a == Append(msgs, m)
    IN  IF Len(a) > n /\ Len(a) > 1 THEN <<a[1]>> \o SubSeq(a, 3, Len(a)) ELSE a

\* addMessage: push, then shift while longer than config.maxMessages
addMessage(msgs, m, n) == ShiftWhile(Append(msgs, m), n)

\* getLastMessages: Array.prototype.slice(-count)
getLastMessages(msgs, count) ==
    IF count = 0 THEN msgs
    ELSE SubSeq(msgs, IF Len(msgs) > count THEN Len(msgs) - count + 1 ELSE 1, Len(msgs))

\* getAllMessages: a copy of the sequence
getAllMessages(msgs) == [i \in 1..Len(msgs) |-> msgs[i]]

\* handing back this.messages itself instead of a copy of it
getAllMessagesResult_NoCopy(msgs) == [items |-> msgs, array |-> "store"]

\* what a call of getAllMessages hands back: the items, in a new array
\* ([...this.messages]), never the array object the store keeps
getAllMessagesResult(msgs) == [items |-> getAllMessages(msgs), array |-> "copy"]

\* what a call of getLastMessages hands back: the items, in a new array
\* (slice always builds one)
getLastMessagesResult(msgs, count) ==
    [items |-> getLastMessages(msgs, count), array |-> "copy"]

\* the array a caller holds after the store changed: a push or shift of
\* this.messages shows in it only if it is that same array object; an
\* assignment to this.messages leaves it with what it held
HeldAfter(q, mem, inPlace) ==
    IF q.state = "done" /\ q.array = "store"
    THEN IF inPlace THEN [q EXCEPT !.held = mem] ELSE [q EXCEPT !.array = "copy"]
    ELSE q

getMessageCount(msgs) == Len(msgs)

RemoveAt(s, i) == SubSeq(s, 1, i - 1) \o SubSeq(s, i + 1, Len(s))

\* debounce waiting half the window
debounce_HalfWait(tmrs, tmout, t) ==
    [timers |-> Append(IF tmout /\ tmrs # <<>> THEN RemoveAt(tmrs, Len(tmrs)) ELSE tmrs,
                       t + DEBOUNCE_WAIT \div 2),
     timeout |-> TRUE]

\* debounce without the clearTimeout: every call leaves one more timer
debounce_NoClear(tmrs, tmout, t) ==
    [timers |-> Append(tmrs, t + DEBOUNCE_WAIT), timeout |-> TRUE]

\* debounce's executedFunction: clearTimeout(timeout) if set, then setTimeout
debounce(tmrs, tmout, t) ==
    [timers |-> Append(IF tmout /\ tmrs # <<>> THEN RemoveAt(tmrs, Len(tmrs)) ELSE tmrs,
                       t + DEBOUNCE_WAIT),
     timeout |-> TRUE]

\* ------------------------------------------------------------------ events
HistoryEvent(ms) ==
    [type |-> "history", messages |-> ms, message |-> NoMsg, code |-> "", field |-> "",
     timestamp |-> 0]
NewMessageEvent(m) ==
    [type |-> "new_message", messages |-> <<>>, message |-> m, code |-> "", field |-> "",
     timestamp |-> 0]
ErrorEvent(e) ==
    [type |-> "error", messages |-> <<>>, message |-> NoMsg, code |-> e.code,
     field |-> e.field, timestamp |-> 0]
PongEvent(t) ==
    [type |-> "pong", messages |-> <<>>, message |-> NoMsg, code |-> "", field |-> "",
     timestamp |-> t]

\* an emit that reaches the client whether or not the socket is open
Emit_Unchecked(rcv, conn, faulty, c, ev) ==
    IF c \notin faulty THEN [rcv EXCEPT ![c] = Append(@, ev)] ELSE rcv

\* socket.emit: reaches the client iff the socket is open and emit does not throw
Emit(rcv, conn, faulty, c, ev) ==
    IF conn[c] /\ c \notin faulty THEN [rcv EXCEPT ![c] = Append(@, ev)] ELSE rcv

\* a save whose failure is reported to every open socket
saveFailed_Notify(rcv, conn, faulty) ==
    [x \in DOMAIN rcv |->
        IF conn[x] /\ x \notin faulty
        THEN Append(rcv[x], ErrorEvent([code |-> "INTERNAL_ERROR", field |-> ""]))
        ELSE rcv[x]]

\* saveMessagesAsync's catch block: the failure is logged and swallowed, no
\* socket hears of it
saveFailed(rcv, conn, faulty) == rcv

\* sendError emitting on the server instead of the socket: every open socket gets it
sendError_ToAll(rcv, conn, faulty, c, e) ==
    [x \in DOMAIN rcv |->
        IF conn[x] /\ x \notin faulty THEN Append(rcv[x], ErrorEvent(e)) ELSE rcv[x]]

\* sendError: no emit on a closed socket; an emit failure is caught
sendError(rcv, conn, faulty, c, e) ==
    IF ~conn[c] THEN rcv ELSE Emit(rcv, conn, faulty, c, ErrorEvent(e))

\* sendHistory that replays the newest message as a new_message after the snapshot
sendHistory_Replay(rcv, conn, faulty, c, msgs) ==
    LET rcv1 == Emit(rcv, conn, faulty, c,
                     HistoryEvent(getLastMessages(msgs, HISTORY_MESSAGE_COUNT)))
    IN  IF msgs = <<>> THEN rcv1
        ELSE Emit(rcv1, conn, faulty, c, NewMessageEvent(msgs[Len(msgs)]))

\* sendHistory emitting on the server instead of the socket
sendHistory_ToAll(rcv, conn, faulty, c, msgs) ==
    [x \in DOMAIN rcv |->
        IF conn[x] /\ x \notin faulty
        THEN Append(rcv[x], HistoryEvent(getLastMessages(msgs, HISTORY_MESSAGE_COUNT)))
        ELSE rcv[x]]

\* sendHistory after the store read: emits the last HISTORY_MESSAGE_COUNT messages
sendHistory(rcv, conn, faulty, c, msgs) ==
    Emit(rcv, conn, faulty, c, HistoryEvent(getLastMessages(msgs, HISTORY_MESSAGE_COUNT)))

\* the forEach without the try/catch around emit: the first throw ends the loop
RECURSIVE BroadcastLoop_NoCatch(_, _, _, _)
BroadcastLoop_NoCatch(socks, conn, faulty, acc) ==
    IF socks = <<>> THEN acc
    ELSE LET s == Head(socks) IN
         IF ~conn[s]
         THEN BroadcastLoop_NoCatch(Tail(socks), conn, faulty,
                                    [acc EXCEPT !.errorCount = @ + 1])
         ELSE IF s \in faulty
         THEN [acc EXCEPT !.attempted = @ \cup {s}, !.threw = TRUE]
         ELSE BroadcastLoop_NoCatch(Tail(socks), conn, faulty,
                                    [acc EXCEPT !.successCount = @ + 1,
                                                !.attempted = @ \cup {s},
                                                !.delivered = @ \cup {s}])

\* broadcastMessage: the forEach over io.sockets.sockets
RECURSIVE BroadcastLoop(_, _, _, _)
BroadcastLoop(socks, conn, faulty, acc) ==
    IF socks = <<>> THEN acc
    ELSE LET s == Head(socks) IN
         IF ~conn[s]
         THEN BroadcastLoop(Tail(socks), conn, faulty,
                            [acc EXCEPT !.errorCount = @ + 1])
         ELSE IF s \in faulty
         THEN BroadcastLoop(Tail(socks), conn, faulty,
                            [acc EXCEPT !.errorCount = @ + 1,
                                        !.attempted = @ \cup {s}])
         ELSE BroadcastLoop(Tail(socks), conn, faulty,
                            [acc EXCEPT !.successCount = @ + 1,
                                        !.attempted = @ \cup {s},
                                        !.delivered = @ \cup {s}])

broadcastMessage(socks, conn, faulty) ==
    BroadcastLoop(socks, conn, faulty,
                  [successCount |-> 0, errorCount |-> 0, attempted |-> {},
                   delivered |-> {}, threw |-> FALSE])

\* a message object built by spreading the client's payload over the
\* server's id and timestamp
Materialize_SpreadPayload(id, ev, t) ==
    [id |-> IF ev.id.t = "number" THEN ev.id.n ELSE id,
     user |-> ev.user.s, content |-> ev.content.s,
     timestamp |-> IF ev.timestamp.t = "number" THEN ev.timestamp.n ELSE t]

\* a message object that keeps the timestamp of the client's payload
Materialize_ClientTime(id, ev, t) ==
    [id |-> id, user |-> ev.user.s, content |-> ev.content.s, timestamp |-> ev.timestamp.n]

\* the server-side message object built by handleMessage
Materialize(id, ev, t) ==
    [id |-> id, user |-> ev.user.s, content |-> ev.content.s, timestamp |-> t]

Range(s) == {s[i] : i \in 1..Len(s)}

\* the value handed to the 'ping' listener: `payload` is the kind of value
\* found under event.payload, `timestamp` the value under payload.timestamp
PingData(isObj, type, payload, timestamp) ==
    [isObj |-> isObj, type |-> type, payload |-> payload, timestamp |-> timestamp]

\* the pings the model sends
PingInputs ==
    << PingData(TRUE, "ping", "object", Num(5)),
       PingData(TRUE, "ping", "object", Num(0)),
       PingData(TRUE, "ping", "undefined", Undefined),
       PingData(TRUE, "ping", "null", Undefined),
       PingData(TRUE, "ping", "number", Undefined),
       PingData(TRUE, "ping", "object", Undefined),
       PingData(TRUE, "ping", "object", Str(<<"5">>)),
       PingData(FALSE, "", "undefined", Undefined),
       PingData(TRUE, "pong", "object", Num(5)) >>

\* isValidPingEvent
isValidPingEvent(obj) ==
    /\ obj.isObj
    /\ obj.type = "ping"
    /\ obj.payload \notin {"undefined", "null"}
    /\ obj.payload \in {"object", "null"}
    /\ obj.timestamp.t = "number"

\* a ping listener that answers whatever carries the type 'ping'
handleHeartbeat_NoShapeCheck(rcv, conn, faulty, c, data, t) ==
    IF data.isObj /\ data.type = "ping"
    THEN Emit(rcv, conn, faulty, c,
              PongEvent(IF data.timestamp.n # 0 THEN data.timestamp.n ELSE t))
    ELSE rcv

\* the 'ping' listener of handleHeartbeat: a valid ping is answered with a
\* pong carrying `payload.timestamp || Date.now()`; a throw is caught
handleHeartbeat(rcv, conn, faulty, c, data, t) ==
    IF isValidPingEvent(data)
    THEN Emit(rcv, conn, faulty, c,
              PongEvent(IF data.timestamp.n # 0 THEN data.timestamp.n ELSE t))
    ELSE rcv

\* a disconnect handler that empties the live set
handleDisconnect_Clear(clients, c) == {}

\* WebSocketServer.handleDisconnect: connectedClients.delete(socket)
handleDisconnect(clients, c) == clients \ {c}

\* WebSocketServer.getConnectedClientsCount: connectedClients.size
getConnectedClientsCount(clients) == Cardinality(clients)

\* ------------------------------------------------------------------- state
WorkloadOn(inputs, conns, subs, rej, ticks) ==
    [inputs |-> inputs, conns |-> conns, submits |-> subs, rejects |-> rej,
     ticks |-> ticks]

Workload(conns, subs, rej, ticks) == WorkloadOn(CommonInputs, conns, subs, rej, ticks)

Conns == 1..limits.conns

InitFrom(load, deployments) ==
    /\ limits = load
    /\ \E d \in deployments :
          /\ maxMessages = ConfigMaxMessages(d.env)
          /\ file = d.file
    /\ messages = <<>>
    /\ initialized = FALSE
    /\ timers = <<>>
    /\ timeout = FALSE
    /\ writing = <<>>
    /\ sockets = <<>>
    /\ connected = [c \in 1..load.conns |-> FALSE]
    /\ connectedClients = {}
    /\ emitFaulty = {}
    /\ pending = {}
    /\ received = [c \in 1..load.conns |-> <<>>]
    /\ now = 10 * DEBOUNCE_WAIT
    /\ nextConn = 1
    /\ nextId = 1
    /\ submits = 0
    /\ appended = <<>>
    /\ broadcasts = <<>>
    /\ rejects = <<>>
    /\ writeCount = 0
    /\ lastWrite = <<>>
    /\ burst = [k |-> 0, startWrites |-> 0, lastAt |-> 0, mem |-> <<>>]
    /\ startEmpty = "none"
    /\ clobbered = FALSE
    /\ boot = [restarts |-> 0, accepted |-> <<>>, clean |-> TRUE, capacity |-> 0]
    /\ disconnectCount = 0
    /\ stale = <<>>
    /\ clearing = [state |-> "none", pos |-> 0, appends |-> 0]
    /\ query = [state |-> "none", call |-> "none", count |-> 0, store |-> <<>>,
                result |-> <<>>, array |-> "copy", held |-> <<>>, appends |-> 0]
    /\ pings = [count |-> 0, conn |-> 0, input |-> 0]
    /\ failures = <<>>
    /\ flushLog = [fails |-> 0, at |-> 0]

InitWith(load) == InitFrom(load, Deployments)

Init == InitWith(Workload(MaxConns, MaxSubmits, MaxRejects, MaxTicks))

storeVars == <<messages, initialized, timers, timeout>>
diskVars == <<writing, file, writeCount, lastWrite>>
socketVars == <<sockets, connected, connectedClients>>
appendHist == <<appended, broadcasts, burst, startEmpty>>
callHist == <<stale, clearing, query, pings, failures, flushLog>>

PendingOp(op, c, m, input, at) ==
    [op |-> op, conn |-> c, msg |-> m, input |-> input, recvAt |-> at]

\* broadcasting the message stored before the one just built
Announced_Previous(m, mem) == IF Len(mem) > 1 THEN mem[Len(mem) - 1] ELSE m

\* broadcasting the head of the store instead of the message just built
Announced_StoreHead(m, mem) == mem[1]

\* the object handleMessage passes to broadcastMessage: the message it built
Announced(m, mem) == m

\* handleMessage from `await messageStore.addMessage(message)` on, once the
\* store is loaded: push and trim, schedule the save, then broadcast; a throw
\* of the broadcast is caught and reported to the sender as INTERNAL_ERROR.
StoreThenBroadcast(msgs0, c, m, input, at, logThrows) ==
    LET res == broadcastMessage(sockets, connected, emitFaulty)
        d == debounce(timers, timeout, now)
        mem == addMessage(msgs0, m, maxMessages)
        rcv1 == [x \in Conns |->
                    IF x \in res.delivered
                    THEN Append(received[x], NewMessageEvent(Announced(m, mem)))
                    ELSE received[x]]
    IN  /\ messages' = mem
        /\ timers' = d.timers
        /\ timeout' = d.timeout
        /\ received' = IF res.threw \/ logThrows
                       THEN sendError(rcv1, connected, emitFaulty, c,
                                      Err("INTERNAL_ERROR", ""))
                       ELSE rcv1
        /\ appended' = Append(appended, m)
        /\ broadcasts' = Append(broadcasts,
              [msg |-> m, from |-> c, input |-> input, recvAt |-> at,
               registered |-> sockets,
               open |-> {x \in Range(sockets) : connected[x]},
               faulty |-> emitFaulty,
               result |-> res])
        /\ burst' = IF burst.k > 0 /\ now - burst.lastAt < DEBOUNCE_WAIT
                    THEN [burst EXCEPT !.k = @ + 1, !.lastAt = now, !.mem = mem]
                    ELSE [k |-> 1, startWrites |-> writeCount, lastAt |-> now,
                          mem |-> mem]
        /\ startEmpty' = IF startEmpty # "none" THEN startEmpty
                         ELSE IF msgs0 = <<>> THEN "yes" ELSE "no"

StoreAndBroadcast(msgs0, c, m, input, at) ==
    StoreThenBroadcast(msgs0, c, m, input, at, FALSE)

\* io.on('connection'): WebSocketServer.handleConnection, then sendHistory
\* up to its `await messageStore.getLastMessages(...)`
Connect ==
    /\ nextConn <= limits.conns
    /\ LET c == nextConn
           conn1 == [connected EXCEPT ![c] = TRUE]
       IN  /\ nextConn' = c + 1
           /\ sockets' = Append(sockets, c)
           /\ connected' = conn1
           /\ connectedClients' = connectedClients \cup {c}
           /\ IF LoadIsSync
              THEN /\ initialized' = TRUE
                   /\ received' = sendHistory(received, conn1, emitFaulty, c, messages)
                   /\ UNCHANGED pending
              ELSE /\ pending' = pending \cup {PendingOp("history", c, NoMsg, 0, now)}
                   /\ UNCHANGED <<initialized, received>>
    /\ UNCHANGED <<limits, maxMessages, messages, timers, timeout, diskVars, emitFaulty,
                   now, nextId, submits, appendHist, rejects, clobbered, boot,
                   disconnectCount, callHist>>

\* socket.on('send_message'): handleMessage up to its first await on I/O
Submit(c, k) ==
    /\ submits < limits.submits
    /\ k \in limits.inputs
    /\ c \in Range(sockets)
    /\ connected[c]
    /\ submits' = submits + 1
    /\ LET err == InputError[k]
       IN  IF err # NoError
           THEN /\ Len(rejects) < limits.rejects
                /\ received' = sendError(received, connected, emitFaulty, c, err)
                /\ rejects' = Append(rejects, [conn |-> c, input |-> k, error |-> err])
                /\ UNCHANGED <<storeVars, pending, nextId, appendHist, query>>
           ELSE LET m == Materialize(nextId, Sanitized[k], now)
                IN  /\ nextId' = nextId + 1
                    /\ UNCHANGED rejects
                    /\ IF LoadIsSync
                       THEN /\ initialized' = TRUE
                            /\ StoreAndBroadcast(messages, c, m, k, now)
                            /\ query' = HeldAfter(query,
                                                  addMessage(messages, m, maxMessages),
                                                  TRUE)
                            /\ UNCHANGED pending
                       ELSE /\ pending' = pending \cup {PendingOp("add", c, m, k, now)}
                            /\ UNCHANGED <<storeVars, received, appendHist, query>>
    /\ UNCHANGED <<limits, maxMessages, diskVars, socketVars, emitFaulty, now, nextConn,
                   clobbered, boot,
                   disconnectCount, stale, clearing, pings, failures, flushLog>>

\* `await readFile` settles for one suspended handler: loadMessages installs
\* the file's content, then the handler runs to its end
LoadDone(p) ==
    /\ p \in pending
    /\ pending' = pending \ {p}
    /\ initialized' = TRUE
    /\ clobbered' = (clobbered \/ appended # <<>>)
    /\ IF p.op = "history"
       THEN /\ messages' = LoadResult(file)
            /\ received' = sendHistory(received, connected, emitFaulty, p.conn,
                                       LoadResult(file))
            /\ query' = HeldAfter(query, LoadResult(file), FALSE)
            /\ UNCHANGED <<timers, timeout, appendHist>>
       ELSE IF p.op \in {"query", "queryAll"}
       THEN LET res == IF p.op = "query"
                       THEN getLastMessagesResult(LoadResult(file), p.input)
                       ELSE getAllMessagesResult(LoadResult(file))
            IN  /\ messages' = LoadResult(file)
                /\ query' = [query EXCEPT !.state = "done",
                                          !.store = LoadResult(file),
                                          !.result = res.items, !.array = res.array,
                                          !.held = res.items,
                                          !.appends = Len(appended)]
                /\ UNCHANGED <<timers, timeout, appendHist, received>>
       ELSE /\ StoreAndBroadcast(LoadResult(file), p.conn, p.msg, p.input, p.recvAt)
            /\ query' = HeldAfter(query, LoadResult(file), FALSE)
    /\ UNCHANGED <<limits, maxMessages, diskVars, socketVars, emitFaulty, now, nextConn,
                   nextId, submits, rejects, boot,
                   disconnectCount, stale, clearing, pings, failures, flushLog>>

\* the transport closes a socket: socket.io marks it disconnected and drops
\* it from io.sockets.sockets, then WebSocketServer.handleDisconnect runs
Disconnect(c) ==
    /\ c \in Range(sockets)
    /\ connected' = [connected EXCEPT ![c] = FALSE]
    /\ sockets' = SelectSeq(sockets, LAMBDA x : x # c)
    /\ connectedClients' = handleDisconnect(connectedClients, c)
    /\ disconnectCount' = disconnectCount + 1
    /\ UNCHANGED <<limits, maxMessages, storeVars, diskVars, emitFaulty, pending, received,
                   now, nextConn, nextId, submits, appendHist, rejects, clobbered, boot,
                   callHist>>

\* a debounce timer fires: `later` clears the handle and calls the save,
\* which serializes this.messages and starts writeFile
FlushFire(i) ==
    /\ i \in 1..Len(timers)
    /\ timers[i] <= now
    /\ timers' = RemoveAt(timers, i)
    /\ timeout' = FALSE
    /\ writing' = Append(writing, messages)
    /\ writeCount' = writeCount + 1
    /\ lastWrite' = messages
    /\ flushLog' = [flushLog EXCEPT !.at = now]
    /\ UNCHANGED <<limits, maxMessages, messages, initialized, file, socketVars, emitFaulty,
                   pending, received, now, nextConn, nextId, submits, appendHist,
                   rejects, clobbered, boot,
                   disconnectCount, stale, clearing, query, pings, failures>>

\* a writeFile call completes: the file is replaced by the serialized content
WriteDone(i) ==
    /\ i \in 1..Len(writing)
    /\ file' = FileArray(writing[i])
    /\ writing' = RemoveAt(writing, i)
    /\ clearing' = IF clearing.state # "writing" THEN clearing
                   ELSE IF clearing.pos = i THEN [clearing EXCEPT !.state = "done"]
                   ELSE IF clearing.pos > i THEN [clearing EXCEPT !.pos = @ - 1]
                   ELSE clearing
    /\ UNCHANGED <<limits, maxMessages, storeVars, writeCount, lastWrite, socketVars,
                   emitFaulty, pending, received, now, nextConn, nextId, submits,
                   appendHist, rejects, clobbered, boot,
                   disconnectCount, stale, query, pings, failures, flushLog>>

\* time passes
Tick ==
    /\ now < 10 * DEBOUNCE_WAIT + limits.ticks * (DEBOUNCE_WAIT \div 2)
    /\ now' = now + DEBOUNCE_WAIT \div 2
    /\ UNCHANGED <<limits, maxMessages, storeVars, diskVars, socketVars, emitFaulty, pending,
                   received, nextConn, nextId, submits, appendHist, rejects, clobbered, boot,
                   disconnectCount, callHist>>

Next ==
    \/ Connect
    \/ \E c \in Conns, k \in 1..Len(RawInputs) : Submit(c, k)
    \/ \E p \in pending : LoadDone(p)
    \/ \E c \in Conns : Disconnect(c)
    \/ \E i \in 1..Len(timers) : FlushFire(i)
    \/ \E i \in 1..Len(writing) : WriteDone(i)
    \/ Tick

Spec == Init /\ [][Next]_vars

\* a single submission among MaxConns clients
InitOne == InitWith(Workload(MaxConns, 1, MaxRejects, MaxTicks))

SpecOne == InitOne /\ [][Next]_vars

\* a single client and a burst of submissions
InitBurst == InitWith(Workload(1, BurstSubmits, 0, BurstTicks))

SpecBurst == InitBurst /\ [][Next]_vars

\* socket.emit throws for this connection from now on
FaultCount == Cardinality(emitFaulty) + Cardinality({c \in Range(sockets) : ~connected[c]})

InjectEmitFault(c) ==
    /\ FaultCount < MaxFaults
    /\ c \in Range(sockets)
    /\ c \notin emitFaulty
    /\ emitFaulty' = emitFaulty \cup {c}
    /\ UNCHANGED <<limits, maxMessages, storeVars, diskVars, socketVars, pending,
                   received, now, nextConn, nextId, submits, appendHist, rejects,
                   clobbered, boot,
                   disconnectCount, callHist>>

\* the transport of a socket is gone while the socket is still registered
TransportClose(c) ==
    /\ FaultCount < MaxFaults
    /\ c \in Range(sockets)
    /\ connected[c]
    /\ connected' = [connected EXCEPT ![c] = FALSE]
    /\ UNCHANGED <<limits, maxMessages, storeVars, diskVars, sockets,
                   connectedClients, emitFaulty, pending, received, now, nextConn,
                   nextId, submits, appendHist, rejects, clobbered, boot,
                   disconnectCount, callHist>>

NextFault ==
    \/ Connect
    \/ \E c \in Conns, k \in 1..Len(RawInputs) : Submit(c, k)
    \/ \E c \in Conns : Disconnect(c)
    \/ \E c \in Conns : InjectEmitFault(c)
    \/ \E c \in Conns : TransportClose(c)

\* no messages file: every load settles within the handler that started it
InitFault ==
    /\ InitWith(Workload(FaultConns, 1, 0, 0))
    /\ file.kind = "absent"

SpecFault == InitFault /\ [][NextFault]_vars

\* the socket handlers alone: no timer fires and no write is issued
NextHandlers ==
    \/ Connect
    \/ \E c \in Conns, k \in 1..Len(RawInputs) : Submit(c, k)
    \/ \E p \in pending : LoadDone(p)
    \/ \E c \in Conns : Disconnect(c)

\* a single submission drawn from the whole catalogue of payloads, on every
\* durable file
InitInputs ==
    InitFrom(WorkloadOn(InputCatalogue, MaxConns, 1, 1, 0),
             Deployments \cup ForeignDeployments)

SpecInputs == InitInputs /\ [][NextHandlers]_vars

\* ChatWindow with a history handler that adds the snapshot to the list
handleHistory_Append(list, historyMessages) == list \o historyMessages

\* ChatWindow.handleHistory: setMessages(historyMessages)
handleHistory(list, historyMessages) == historyMessages

\* ChatWindow.handleMessage: setMessages((prev) => [...prev, message])
handleMessage(list, message) == Append(list, message)

\* useChatSocket's listeners: 'history' goes to onHistory with
\* payload.messages, 'new_message' to onMessage with payload.message; the
\* other events leave the list alone
onServerEvent(list, ev) ==
    IF ev.type = "history" THEN handleHistory(list, ev.messages)
    ELSE IF ev.type = "new_message" THEN handleMessage(list, ev.message)
    ELSE list

\* the list of ChatWindow after the events `evs`, starting from `list`
RECURSIVE setMessages(_, _)
setMessages(list, evs) ==
    IF evs = <<>> THEN list
    ELSE setMessages(onServerEvent(list, Head(evs)), Tail(evs))

\* the events one client has received over its successive connections
\* 1..n, in the order received
RECURSIVE ClientEvents(_)
ClientEvents(n) == IF n = 0 THEN <<>> ELSE ClientEvents(n - 1) \o received[n]

\* ChatWindow's messages state
LocalMessages == setMessages(<<>>, ClientEvents(nextConn - 1))

\* the client's socket connects, or reconnects after it was disconnected:
\* one client has one socket
ClientConnect ==
    /\ \A c \in Conns : ~connected[c]
    /\ Connect

NextClient ==
    \/ ClientConnect
    \/ \E c \in Conns, k \in 1..Len(RawInputs) : Submit(c, k)
    \/ \E p \in pending : LoadDone(p)
    \/ \E c \in Conns : Disconnect(c)
    \/ \E i \in 1..Len(timers) : FlushFire(i)
    \/ \E i \in 1..Len(writing) : WriteDone(i)
    \/ Tick

\* one client that connects, sends, disconnects and reconnects, on every
\* durable file
InitClient == InitWith(Workload(MaxConns, 2, 0, 2))

SpecClient == InitClient /\ [][NextClient]_vars

\* the same user and content submitted with and without fields of the
\* client's own, on every durable file
TwinInputs == {1, Len(RawInputs)}

InitTwin == InitWith(WorkloadOn(TwinInputs, 1, MaxSubmits, 0, 0))

SpecTwin == InitTwin /\ [][NextHandlers]_vars

\* SIGTERM / SIGINT: shutdown closes the socket server and the HTTP server and
\* the process exits; nothing flushes the store, so the pending debounce
\* timer and the suspended handlers die with the process, and a writeFile in
\* flight either has not touched the file or leaves it truncated. The next
\* process starts with a fresh MessageStore and the file as it was left.
Restart ==
    /\ boot.restarts < MaxRestarts
    /\ boot' = [restarts |-> boot.restarts + 1,
                accepted |-> appended,
                clean |-> (startEmpty = "yes" /\ ~clobbered),
                capacity |-> maxMessages]
    /\ messages' = <<>>
    /\ initialized' = FALSE
    /\ timers' = <<>>
    /\ timeout' = FALSE
    /\ writing' = <<>>
    /\ file' \in {file} \cup (IF writing # <<>>
                               THEN {[kind |-> "not_json", elems |-> <<>>]}
                               ELSE {})
    /\ sockets' = <<>>
    /\ connected' = [c \in Conns |-> FALSE]
    /\ connectedClients' = {}
    /\ emitFaulty' = {}
    /\ pending' = {}
    /\ disconnectCount' = 0
    /\ UNCHANGED <<limits, maxMessages, writeCount, lastWrite, received, now, nextConn,
                   nextId, submits, appendHist, rejects, clobbered, callHist>>

NextRestart ==
    \/ Next
    \/ Restart

InitRestart == InitWith(Workload(MaxConns, MaxSubmits, 0, MaxTicks))

SpecRestart == InitRestart /\ [][NextRestart]_vars

\* handleDisconnect runs for a connection that is not in the live set: one
\* already removed, or one never registered
DisconnectAbsent(c) ==
    /\ Len(stale) < MaxStale
    /\ c \notin connectedClients
    /\ connectedClients' = handleDisconnect(connectedClients, c)
    /\ disconnectCount' = disconnectCount + 1
    /\ stale' = Append(stale, [conn |-> c, registered |-> c < nextConn])
    /\ UNCHANGED <<limits, maxMessages, storeVars, diskVars, sockets, connected,
                   emitFaulty, pending, received, now, nextConn, nextId, submits,
                   appendHist, rejects, clobbered, boot, clearing, query, pings,
                   failures, flushLog>>

NextRegistry ==
    \/ Connect
    \/ \E c \in Conns : Disconnect(c)
    \/ \E c \in Conns : DisconnectAbsent(c)
    \/ \E c \in Conns : TransportClose(c)

\* connections come and go; no messages file and no submission
InitRegistry ==
    /\ InitWith(Workload(FaultConns, 0, 0, 0))
    /\ file.kind = "absent"

SpecRegistry == InitRegistry /\ [][NextRegistry]_vars

\* socket.on('ping'): the listener registered by handleHeartbeat
Ping(c, k) ==
    /\ pings.count < MaxPings
    /\ k \in 1..Len(PingInputs)
    /\ c \in Range(sockets)
    /\ connected[c]
    /\ received' = handleHeartbeat(received, connected, emitFaulty, c, PingInputs[k], now)
    /\ pings' = [count |-> pings.count + 1, conn |-> c, input |-> k]
    /\ UNCHANGED <<limits, maxMessages, storeVars, diskVars, socketVars, emitFaulty,
                   pending, now, nextConn, nextId, submits, appendHist, rejects,
                   clobbered, boot, disconnectCount, stale, clearing, query,
                   failures, flushLog>>

NextPing ==
    \/ Connect
    \/ \E c \in Conns, k \in 1..Len(RawInputs) : Submit(c, k)
    \/ \E c \in Conns : Disconnect(c)
    \/ \E c \in Conns, k \in 1..Len(PingInputs) : Ping(c, k)

\* pings among MaxConns clients and a single submission; no messages file
InitPing ==
    /\ InitWith(Workload(MaxConns, 1, 0, 0))
    /\ file.kind = "absent"

SpecPing == InitPing /\ [][NextPing]_vars

\* the points of handleMessage's try block where a failure is injected:
\* building the message (uuidv4), addMessage before its push, and
\* broadcastMessage after its loop (the final logInfo)
FailureSteps == {"materialize", "store", "broadcast"}

\* handleMessage from `await messageStore.addMessage(message)` on, with a
\* throw at `step`: the catch block reports INTERNAL_ERROR to the sender
FailAt(msgs0, c, m, input, at, step) ==
    /\ failures' = Append(failures, [conn |-> c, step |-> step, id |-> m.id])
    /\ IF step = "broadcast"
       THEN StoreThenBroadcast(msgs0, c, m, input, at, TRUE)
       ELSE /\ messages' = msgs0
            /\ received' = sendError(received, connected, emitFaulty, c,
                                     Err("INTERNAL_ERROR", ""))
            /\ UNCHANGED <<timers, timeout, appendHist>>

\* socket.on('send_message') for a valid submission whose handling throws
\* before handleMessage reaches an await on I/O
SubmitFailing(c, k, step) ==
    /\ Len(failures) < MaxFailures
    /\ submits < limits.submits
    /\ k \in limits.inputs
    /\ InputError[k] = NoError
    /\ c \in Range(sockets)
    /\ connected[c]
    /\ step = "materialize" \/ LoadIsSync
    /\ submits' = submits + 1
    /\ LET m == Materialize(nextId, Sanitized[k], now)
       IN  IF step = "materialize"
           THEN /\ FailAt(messages, c, NoMsg, k, now, step)
                /\ UNCHANGED <<initialized, nextId>>
           ELSE /\ initialized' = TRUE
                /\ nextId' = nextId + 1
                /\ FailAt(messages, c, m, k, now, step)
    /\ UNCHANGED <<limits, maxMessages, diskVars, socketVars, emitFaulty, pending, now,
                   nextConn, rejects, clobbered, boot, disconnectCount, stale,
                   clearing, query, pings, flushLog>>

\* `await readFile` settles for a suspended handleMessage, whose addMessage
\* or broadcast then throws
LoadDoneFailing(p, step) ==
    /\ Len(failures) < MaxFailures
    /\ p \in pending
    /\ p.op = "add"
    /\ step \in {"store", "broadcast"}
    /\ pending' = pending \ {p}
    /\ initialized' = TRUE
    /\ clobbered' = (clobbered \/ appended # <<>>)
    /\ FailAt(LoadResult(file), p.conn, p.msg, p.input, p.recvAt, step)
    /\ UNCHANGED <<limits, maxMessages, diskVars, socketVars, emitFaulty, now, nextConn,
                   nextId, submits, rejects, boot, disconnectCount, stale, clearing,
                   query, pings, flushLog>>

NextFailure ==
    \/ NextHandlers
    \/ \E c \in Conns, k \in 1..Len(RawInputs), step \in FailureSteps :
          SubmitFailing(c, k, step)
    \/ \E p \in pending, step \in FailureSteps : LoadDoneFailing(p, step)

\* a single submission among MaxConns clients, whose handling may throw
InitFailure == InitWith(Workload(MaxConns, 1, 0, 0))

SpecFailure == InitFailure /\ [][NextFailure]_vars

\* a writeFile call fails: saveMessagesAsync catches and logs. The file is
\* as it was when the call could not open it, and truncated when the call
\* failed after opening it.
WriteFail(i) ==
    /\ flushLog.fails < MaxWriteFails
    /\ i \in 1..Len(writing)
    /\ writing' = RemoveAt(writing, i)
    /\ file' \in {file, [kind |-> "not_json", elems |-> <<>>]}
    /\ received' = saveFailed(received, connected, emitFaulty)
    /\ flushLog' = [flushLog EXCEPT !.fails = @ + 1]
    /\ clearing' = IF clearing.state # "writing" THEN clearing
                   ELSE IF clearing.pos = i THEN [clearing EXCEPT !.state = "done"]
                   ELSE IF clearing.pos > i THEN [clearing EXCEPT !.pos = @ - 1]
                   ELSE clearing
    /\ UNCHANGED <<limits, maxMessages, storeVars, writeCount, lastWrite, socketVars,
                   emitFaulty, pending, now, nextConn, nextId, submits, appendHist,
                   rejects, clobbered, boot, disconnectCount, stale, query, pings,
                   failures>>

\* one client, appends and the debounced writes they cause; no messages file,
\* so no load is ever suspended
NextFlush ==
    \/ Connect
    \/ \E c \in Conns, k \in 1..Len(RawInputs) : Submit(c, k)
    \/ \E i \in 1..Len(timers) : FlushFire(i)
    \/ \E i \in 1..Len(writing) : WriteDone(i)
    \/ \E i \in 1..Len(writing) : WriteFail(i)
    \/ Tick

InitFlush ==
    /\ InitWith(Workload(1, BurstSubmits, 0, FlushTicks))
    /\ file.kind = "absent"

SpecFlush == InitFlush /\ [][NextFlush]_vars

\* one client, two submissions and time for a flush between their loads
InitLate == InitWith(Workload(1, MaxSubmits, 0, FlushTicks))

SpecLate == InitLate /\ [][Next]_vars

\* MessageStore.clear(), called once: empties this.messages and starts
\* writeFile with the empty array; the call completes when that write does.
\* It neither waits for a load nor marks the store initialized, and it leaves
\* the debounce timer alone.
Clear ==
    /\ clearing.state = "none"
    /\ messages' = <<>>
    /\ writing' = Append(writing, <<>>)
    /\ writeCount' = writeCount + 1
    /\ lastWrite' = <<>>
    /\ clearing' = [state |-> "writing", pos |-> Len(writing) + 1,
                    appends |-> Len(appended)]
    /\ query' = HeldAfter(query, <<>>, FALSE)
    /\ UNCHANGED <<limits, maxMessages, initialized, timers, timeout, file, socketVars,
                   emitFaulty, pending, received, now, nextConn, nextId, submits,
                   appendHist, rejects, clobbered, boot, disconnectCount, stale,
                   pings, failures, flushLog>>

\* a direct read of the store, called once: the lazy load, then the result
\* handed to the caller, who keeps it
Read(op, n) ==
    /\ query.state = "none"
    /\ IF LoadIsSync
       THEN LET res == IF op = "query" THEN getLastMessagesResult(messages, n)
                       ELSE getAllMessagesResult(messages)
            IN  /\ initialized' = TRUE
                /\ query' = [state |-> "done",
                             call |-> IF op = "query" THEN "getLastMessages"
                                      ELSE "getAllMessages",
                             count |-> n, store |-> messages,
                             result |-> res.items, array |-> res.array,
                             held |-> res.items, appends |-> Len(appended)]
                /\ UNCHANGED pending
       ELSE /\ pending' = pending \cup {PendingOp(op, 0, NoMsg, n, now)}
            /\ query' = [query EXCEPT !.state = "pending", !.count = n,
                                      !.call = IF op = "query" THEN "getLastMessages"
                                               ELSE "getAllMessages"]
            /\ UNCHANGED initialized
    /\ UNCHANGED <<limits, maxMessages, messages, timers, timeout, diskVars, socketVars,
                   emitFaulty, received, now, nextConn, nextId, submits, appendHist,
                   rejects, clobbered, boot, disconnectCount, stale, clearing, pings,
                   failures, flushLog>>

\* MessageStore.getLastMessages(count) with any count: this.messages.slice(-count)
Query(n) == Read("query", n)

\* MessageStore.getAllMessages(): [...this.messages]
QueryAll == Read("queryAll", 0)

NextStore ==
    \/ Next
    \/ Clear
    \/ \E n \in 0..MaxCount : Query(n)
    \/ QueryAll

\* one client and one submission around the direct calls, on every durable file
InitStore ==
    InitFrom(Workload(1, 1, 0, MaxTicks), Deployments \cup ForeignDeployments)

SpecStore == InitStore /\ [][NextStore]_vars

\* ================================================================== claims

\* C1: starting from an empty, initialized store of capacity N, after k
\* messages appended through addMessage (and no load settling in between),
\* getAllMessages() has length min(N, k) and equals the last min(N, k)
\* appended messages, oldest first.
C1_BoundedHistory ==
    (startEmpty = "yes" /\ ~clobbered) =>
        LET k == Len(appended)
            n == Min(maxMessages, k)
        IN  /\ Len(getAllMessages(messages)) = n
            /\ getAllMessages(messages) = SubSeq(appended, k - n + 1, k)

\* more messages appended than the capacity: the oldest one has been evicted
C1_Witness ==
    /\ startEmpty = "yes"
    /\ ~clobbered
    /\ Len(appended) > maxMessages
    /\ maxMessages > 1
    /\ messages = SubSeq(appended, 2, 3)

\* ---------------------------------------------------------------- helpers
Registered == 1..(nextConn - 1)

IsHistory(e) == e.type = "history"
IsNewMessage(e) == e.type = "new_message"

\* positions of the new_message events for the message with this id
NewMessageAt(c, id) ==
    {i \in 1..Len(received[c]) : IsNewMessage(received[c][i]) /\ received[c][i].message.id = id}

HistoryAt(c) == {i \in 1..Len(received[c]) : IsHistory(received[c][i])}

PendingHistory(c) == \E p \in pending : p.op = "history" /\ p.conn = c

\* position of a message in the order of the appends
AppendIndex(m) == CHOOSE i \in 1..Len(appended) : appended[i] = m

ValidationCodes ==
    {"INVALID_EVENT_TYPE", "INVALID_USER", "INVALID_CONTENT", "CONTENT_TOO_LONG"}

\* C2: for every accepted submission, every connection open at broadcast
\* time, the sender included, receives exactly one new_message event for it,
\* whose user and content are the trimmed submitted values, whose id is
\* non-empty and whose timestamp is at least the time of the submission.
C2_BroadcastToAllOpen ==
    \A i \in 1..Len(broadcasts) :
        LET b == broadcasts[i]
            sent == RawInputs[b.input].value
        IN  \A c \in b.open :
                /\ Cardinality(NewMessageAt(c, b.msg.id)) = 1
                /\ \A j \in NewMessageAt(c, b.msg.id) :
                      LET got == received[c][j].message
                      IN  /\ got.user = Trim(sent.user.s)
                          /\ got.content = Trim(sent.content.s)
                          /\ got.id # NoMsg.id
                          /\ got.timestamp >= b.recvAt

\* a padded submission was broadcast to its sender and to another connection
C2_Witness ==
    \E i \in 1..Len(broadcasts) :
        LET b == broadcasts[i]
        IN  /\ b.from \in b.open
            /\ Cardinality(b.open) >= 2
            /\ \A c \in b.open : Cardinality(NewMessageAt(c, b.msg.id)) = 1
            /\ b.msg.content # RawInputs[b.input].value.content.s

\* C3: a submission rejected by validateMessage produces exactly one error
\* event with the validator's code, on the originating connection only; no
\* other event is emitted and the store is unchanged.
C3_RejectionToSenderOnly ==
    [][ Len(rejects') > Len(rejects) =>
          LET r == rejects'[Len(rejects')]
          IN  r.error.code \in ValidationCodes =>
                /\ r.error = validateMessage(RawInputs[r.input].value)
                /\ received' = [received EXCEPT ![r.conn] = Append(@, ErrorEvent(r.error))]
                /\ messages' = messages
                /\ appended' = appended
                /\ pending' = pending ]_vars

\* an over-long submission was rejected while another connection was open
C3_Witness ==
    /\ Len(rejects) >= 1
    /\ rejects[1].error.code = "CONTENT_TOO_LONG"
    /\ Cardinality({c \in Range(sockets) : connected[c]}) >= 2
    /\ \E j \in 1..Len(received[rejects[1].conn]) :
          received[rejects[1].conn][j] = ErrorEvent(rejects[1].error)

\* C4: a broadcast attempts an emit on every open registered socket whatever
\* happens to the others, never throws, and its success and failure counts
\* add up to the number of registered sockets; with three registered sockets
\* of which only the second fails, it counts 2 successes and 1 failure.
C4_BroadcastIsolation ==
    \A i \in 1..Len(broadcasts) :
        LET b == broadcasts[i]
            res == b.result
            failing == {c \in Range(b.registered) : c \notin b.open \/ c \in b.faulty}
        IN  /\ ~res.threw
            /\ res.attempted = b.open
            /\ res.delivered = b.open \ b.faulty
            /\ res.successCount + res.errorCount = Len(b.registered)
            /\ res.errorCount = Cardinality(failing)
            /\ (Len(b.registered) = 3 /\ failing = {b.registered[2]}) =>
                  (res.successCount = 2 /\ res.errorCount = 1)
            /\ \A c \in res.delivered : NewMessageAt(c, b.msg.id) # {}

\* three registered sockets, the emit on the second one throws
C4_Witness ==
    \E i \in 1..Len(broadcasts) :
        LET b == broadcasts[i]
        IN  /\ Len(b.registered) = 3
            /\ b.open = Range(b.registered)
            /\ b.faulty = {b.registered[2]}
            /\ b.result.successCount = 2
            /\ b.result.errorCount = 1
            /\ NewMessageAt(b.registered[3], b.msg.id) # {}

\* C5: no connection receives a message inside its history snapshot and then
\* again in a new_message event delivered after that snapshot.
C5_NoDuplicateAfterSnapshot ==
    \A c \in Registered :
        \A i \in HistoryAt(c) :
            \A j \in (i + 1)..Len(received[c]) :
                IsNewMessage(received[c][j]) =>
                    \A x \in 1..Len(received[c][i].messages) :
                        received[c][i].messages[x].id # received[c][j].message.id

\* a snapshot holding an accepted message is followed by a later new_message
C5_Witness ==
    \E c \in Registered :
        \E i \in HistoryAt(c) :
            /\ \E x \in 1..Len(received[c][i].messages) :
                  received[c][i].messages[x] \in Range(appended)
            /\ \E j \in (i + 1)..Len(received[c]) : IsNewMessage(received[c][j])

\* C6: for a connection that is registered and stays open, every message
\* accepted after its registration is in its history snapshot or arrives in a
\* new_message event after that snapshot.
C6_AcceptedReachesView ==
    \A i \in 1..Len(broadcasts) :
        LET b == broadcasts[i]
        IN  \A c \in b.open :
                (connected[c] /\ HistoryAt(c) # {}) =>
                    \A h \in HistoryAt(c) :
                        \/ b.msg \in Range(received[c][h].messages)
                        \/ \E j \in NewMessageAt(c, b.msg.id) : j > h

\* C7: every connection receives the new_message events of any two accepted
\* messages in the order in which the two were appended to the store.
C7_BroadcastInAppendOrder ==
    \A c \in Registered :
        \A i, j \in 1..Len(received[c]) :
            (i < j /\ IsNewMessage(received[c][i]) /\ IsNewMessage(received[c][j])) =>
                /\ received[c][i].message \in Range(appended)
                /\ received[c][j].message \in Range(appended)
                /\ AppendIndex(received[c][i].message) < AppendIndex(received[c][j].message)

\* two submissions were in flight together and were appended in the reverse
\* of their submission order; a connection received both
C7_Witness ==
    /\ Len(appended) = 2
    /\ appended[1].id > appended[2].id
    /\ \E c \in Registered :
          /\ NewMessageAt(c, appended[1].id) # {}
          /\ NewMessageAt(c, appended[2].id) # {}

\* C8: each registration causes at most one history event, on the registered
\* connection only: none before its store read settles, exactly one after it
\* on a connection that is still open, none on connections never registered.
C8_OneHistoryPerRegistration ==
    \A c \in Conns :
        /\ Cardinality(HistoryAt(c)) <= 1
        /\ c \notin Registered => received[c] = <<>>
        /\ PendingHistory(c) => HistoryAt(c) = {}
        /\ (c \in Registered /\ connected[c] /\ ~PendingHistory(c)) =>
              Cardinality(HistoryAt(c)) = 1

\* two registrations have each been answered by their one history event,
\* the first one after the second
C8_Witness ==
    /\ nextConn > 2
    /\ Cardinality(HistoryAt(1)) = 1
    /\ Cardinality(HistoryAt(2)) = 1
    /\ connected[1]
    /\ connected[2]
    /\ messages # <<>>

\* C9: the history event sent to a newly registered connection holds the
\* complete store sequence, for every configured capacity.
C9_HistoryIsWholeStore ==
    [][ \A c \in Conns :
          Cardinality(HistoryAt(c))' > Cardinality(HistoryAt(c)) =>
              received'[c][Len(received'[c])].messages = messages' ]_vars

LastOf(s, n) == SubSeq(s, Len(s) - Min(n, Len(s)) + 1, Len(s))

\* C11: after a shutdown and a start under the same capacity, the store
\* loaded from the durable file holds exactly the last min(N, k) of the k
\* messages accepted before the shutdown (the store having started empty),
\* whatever the time between the last acceptance and the shutdown.
C11_PersistsAcrossRestart ==
    (/\ boot.restarts > 0
     /\ boot.clean
     /\ boot.capacity = maxMessages
     /\ initialized
     /\ appended = boot.accepted) =>
        messages = LastOf(boot.accepted, maxMessages)

\* the payload of the k-th submission of the catalogue
Payload(k) == RawInputs[k].value

\* the validator's rules, as statements about the submitted event
TypeIsSendMessage(e) == e.type.t = "string" /\ e.type.s = "send_message"
UserNonEmpty(e) == e.user.t = "string" /\ Trim(e.user.s) # <<>>
ContentNonEmpty(e) == e.content.t = "string" /\ Trim(e.content.s) # <<>>

\* which of the first three rules each payload of the catalogue passes
Passes ==
    [k \in InputCatalogue |->
        [type |-> TypeIsSendMessage(Payload(k)),
         user |-> UserNonEmpty(Payload(k)),
         content |-> ContentNonEmpty(Payload(k)),
         unpadded |-> (Payload(k).content.t = "string"
                       /\ Trim(Payload(k).content.s) = Payload(k).content.s)]]

\* C12: a well-formed event is rejected with the error of the first rule it
\* fails in the order event type, user, content, content length, and an
\* accepted one fails none of the first three; so an empty user with
\* over-long content gives INVALID_USER and any type other than send_message
\* gives INVALID_EVENT_TYPE whatever the payload.
C12_FirstFailingRuleWins ==
    /\ \A i \in 1..Len(rejects) :
          LET r == rejects[i]
              ok == Passes[r.input]
          IN  r.error.code # "PARSE_ERROR" =>
                r.error = IF ~ok.type THEN Err("INVALID_EVENT_TYPE", "")
                          ELSE IF ~ok.user THEN Err("INVALID_USER", "user")
                          ELSE IF ~ok.content THEN Err("INVALID_CONTENT", "content")
                          ELSE Err("CONTENT_TOO_LONG", "content")
    /\ \A i \in 1..Len(broadcasts) :
          LET ok == Passes[broadcasts[i].input]
          IN  ok.type /\ ok.user /\ ok.content

\* a blank user with over-long content was rejected for its user
C12_Witness ==
    \E i \in 1..Len(rejects) :
        LET e == Payload(rejects[i].input)
        IN  /\ Passes[rejects[i].input].type
            /\ ~Passes[rejects[i].input].user
            /\ Len(e.content.s) > MAX_CONTENT_LENGTH
            /\ rejects[i].error.code = "INVALID_USER"
            /\ ErrorEvent(rejects[i].error) \in Range(received[rejects[i].conn])

\* C13: among the submissions that pass the type, user and content rules, a
\* submission is rejected with CONTENT_TOO_LONG exactly when its trimmed
\* content is longer than MAX_CONTENT_LENGTH; content that exceeds the maximum
\* only by its whitespace padding is accepted.
C13_TooLongIffTrimmedTooLong ==
    /\ \A i \in 1..Len(rejects) :
          rejects[i].error.code = "CONTENT_TOO_LONG" =>
              Len(Trim(Payload(rejects[i].input).content.s)) > MAX_CONTENT_LENGTH
    /\ \A i \in 1..Len(broadcasts) :
          Len(Trim(Payload(broadcasts[i].input).content.s)) <= MAX_CONTENT_LENGTH

\* C14: for content without padding, a submission that passes the type, user
\* and content rules is rejected only if its content is longer than
\* MAX_CONTENT_LENGTH (exactly 700 characters are accepted), the rejection is
\* one error event with code CONTENT_TOO_LONG and field 'content' on the
\* sender's connection, it leaves the store, its timer and the file unchanged,
\* and no appended message has content longer than the maximum.
C14_LengthBoundary ==
    [][ /\ Len(rejects') > Len(rejects) =>
             LET r == rejects'[Len(rejects')]
                 e == Payload(r.input)
             IN  (/\ Passes[r.input].type
                  /\ Passes[r.input].user
                  /\ Passes[r.input].content
                  /\ Passes[r.input].unpadded) =>
                     /\ Len(e.content.s) > MAX_CONTENT_LENGTH
                     /\ r.error = Err("CONTENT_TOO_LONG", "content")
                     /\ received' = [received EXCEPT
                                        ![r.conn] = Append(@, ErrorEvent(r.error))]
                     /\ UNCHANGED <<messages, appended, timers, file, pending>>
        /\ Len(appended') > Len(appended) =>
             Len(appended'[Len(appended')].content) <= MAX_CONTENT_LENGTH ]_vars

\* content of 701 characters was rejected while the store held a message
C14_Witness ==
    /\ initialized
    /\ messages # <<>>
    /\ \E i \in 1..Len(rejects) :
          LET e == Payload(rejects[i].input)
          IN  /\ e.content.s = Repeat("x", MAX_CONTENT_LENGTH + 1)
              /\ Passes[rejects[i].input].user
              /\ rejects[i].error = Err("CONTENT_TOO_LONG", "content")
              /\ received[rejects[i].conn][Len(received[rejects[i].conn])] =
                     ErrorEvent(rejects[i].error)

\* r is s without its leading and trailing whitespace, the rest unchanged
IsTrimOf(r, s) ==
    /\ r # <<>> => (~IsWS(r[1]) /\ ~IsWS(r[Len(r)]))
    /\ \E i \in 0..(Len(s) - Len(r)) :
          /\ SubSeq(s, i + 1, i + Len(r)) = r
          /\ \A j \in 1..i : IsWS(s[j])
          /\ \A j \in (i + Len(r) + 1)..Len(s) : IsWS(s[j])

\* sanitizeMessage applied to its own result, for each payload
Resanitized == [k \in InputCatalogue |-> sanitizeMessage(Sanitized[k])]

\* C15: the message stored and broadcast for an accepted submission carries
\* the submitted user and content without their leading and trailing
\* whitespace and otherwise unchanged, and sanitizing the sanitized event
\* again changes nothing.
C15_StoredAndBroadcastTrimmed ==
    \A i \in 1..Len(broadcasts) :
        LET b == broadcasts[i]
            e == Payload(b.input)
        IN  /\ IsTrimOf(b.msg.user, e.user.s)
            /\ IsTrimOf(b.msg.content, e.content.s)
            /\ appended[i] = b.msg
            /\ \A c \in b.result.delivered :
                  \A j \in NewMessageAt(c, b.msg.id) :
                      /\ received[c][j].message.user = b.msg.user
                      /\ received[c][j].message.content = b.msg.content
            /\ Resanitized[b.input] = Sanitized[b.input]
            /\ Resanitized[b.input].user.s = b.msg.user
            /\ Resanitized[b.input].content.s = b.msg.content

\* a submission padded on both sides and with inner whitespace is in the
\* store and at a client, trimmed
C15_Witness ==
    \E i \in 1..Len(broadcasts) :
        LET b == broadcasts[i]
            e == Payload(b.input)
        IN  /\ IsWS(e.content.s[1])
            /\ IsWS(e.content.s[Len(e.content.s)])
            /\ \E j \in 1..Len(b.msg.content) : IsWS(b.msg.content[j])
            /\ Len(b.msg.content) = Len(e.content.s) - 2
            /\ b.msg \in Range(messages)
            /\ \E c \in b.result.delivered : NewMessageAt(c, b.msg.id) # {}

\* the raw payloads the claim lists as not well-formed
Malformed(d) ==
    \/ d.isString /\ ~d.json_ok
    \/ d.value.t # "object"
    \/ d.value.type.t # "string"
    \/ ~d.value.payloadIsObj

\* an object of one of the recognised event shapes
RecognisedShape(v) ==
    /\ v.t = "object" /\ v.type.t = "string" /\ v.payloadIsObj
    /\ \/ v.type.s = "send_message" /\ v.user.t = "string" /\ v.content.t = "string"
       \/ v.type.s = "read_messages" /\ v.messageIds.t = "string_array"
                                      /\ v.userId.t = "string"
       \/ v.type.s \in {"join_room", "leave_room"} /\ v.userId.t = "string"
       \/ v.type.s = "ping" /\ v.timestamp.t = "number"

\* C16: a raw payload that is neither an object of a recognised event shape
\* nor a string deserializing to one is answered by exactly one PARSE_ERROR
\* error event on the sender's connection, with no field of the validator and
\* with the store, its timer, the file and every other connection untouched;
\* PARSE_ERROR answers no other payload, and nothing malformed is appended.
C16_ParseErrorToSenderOnly ==
    [][ /\ Len(rejects') > Len(rejects) =>
             LET r == rejects'[Len(rejects')]
                 d == RawInputs[r.input]
             IN  /\ Malformed(d) => r.error.code = "PARSE_ERROR"
                 /\ r.error.code = "PARSE_ERROR" <=>
                        ~((d.isString => d.json_ok) /\ RecognisedShape(d.value))
                 /\ r.error.code = "PARSE_ERROR" =>
                        /\ r.error = Err("PARSE_ERROR", "")
                        /\ received' = [received EXCEPT
                                           ![r.conn] = Append(@, ErrorEvent(r.error))]
                        /\ UNCHANGED <<messages, appended, broadcasts, timers, pending,
                                       file>>
        /\ Len(broadcasts') > Len(broadcasts) =>
             LET d == RawInputs[broadcasts'[Len(broadcasts')].input]
             IN  ~Malformed(d) /\ RecognisedShape(d.value) ]_vars

\* a bare number was answered by PARSE_ERROR while a second connection, which
\* received no error, was open
C16_Witness ==
    \E i \in 1..Len(rejects) :
        LET r == rejects[i]
        IN  /\ RawInputs[r.input].value.t = "number"
            /\ ~RawInputs[r.input].isString
            /\ r.error.code = "PARSE_ERROR"
            /\ ErrorEvent(r.error) \in Range(received[r.conn])
            /\ \E c \in Range(sockets) :
                  /\ c # r.conn
                  /\ connected[c]
                  /\ \A j \in 1..Len(received[c]) : received[c][j].type # "error"

\* C17: when addMessage pushes onto a sequence of exactly N messages (the
\* store as it is, or as the handler's own load has just installed it), the
\* result is that sequence without its first element followed by the new
\* message.
C17_EvictsOnlyOldest ==
    [][ Len(appended') = Len(appended) + 1 =>
          LET prev == IF submits' = submits THEN LoadResult(file) ELSE messages
              m == appended'[Len(appended')]
          IN  Len(prev) = maxMessages =>
                  /\ messages' = Tail(prev) \o <<m>>
                  /\ Len(messages') = maxMessages
                  /\ \A i \in 1..(maxMessages - 1) : messages'[i] = prev[i + 1] ]_vars

\* a full store loaded from the file took one more message: its first
\* message is gone, the others moved up in order, the new one is last
C17_Witness ==
    /\ appended # <<>>
    /\ file.kind = "array"
    /\ Len(file.elems) = maxMessages
    /\ Len(messages) = maxMessages
    /\ messages[maxMessages] = appended[Len(appended)]
    /\ file.elems[1] \notin Range(messages)
    /\ \A i \in 1..(maxMessages - 1) : messages[i] = file.elems[i + 1]

\* C18: once a store operation has completed, getMessageCount() is at most
\* the capacity N, also when the durable file holds more than N shape-valid
\* messages.
C18_CountAtMostN ==
    initialized => getMessageCount(messages) <= maxMessages

\* the validator's rules, as statements about a message
RuleValid(m) ==
    /\ m.user # <<>> /\ Trim(m.user) = m.user
    /\ m.content # <<>> /\ Trim(m.content) = m.content
    /\ Len(m.content) <= MAX_CONTENT_LENGTH

\* C19: every message in the store, whether appended or loaded from the
\* durable file, and every message broadcast has a non-empty user and
\* content without leading or trailing whitespace and content of at most
\* MAX_CONTENT_LENGTH characters.
C19_StoredAndBroadcastValid ==
    /\ \A i \in 1..Len(messages) : RuleValid(messages[i])
    /\ \A i \in 1..Len(broadcasts) : RuleValid(broadcasts[i].msg)

\* a durable file that is missing, unreadable, not JSON, not an array, or an
\* array with an element failing the shape check
BadFile(f) ==
    \/ f.kind \in {"absent", "unreadable", "not_json", "not_array"}
    \/ f.kind = "array" /\ \E i \in 1..Len(f.elems) : ~(f.elems[i].timestamp > 0)

\* C20: with such a file, the store operation that completes first finds the
\* in-memory sequence empty (a registration is answered by an empty history,
\* a submission is appended to the empty sequence) and no error reaches a
\* client; an operation started once the store is initialized does not load.
C20_BadFileLoadsEmpty ==
    [][ /\ (~initialized /\ initialized' /\ BadFile(file)) =>
              /\ messages' = IF Len(appended') > Len(appended)
                             THEN <<appended'[Len(appended')]>>
                             ELSE <<>>
              /\ \A c \in Conns :
                    received'[c] # received[c] =>
                        LET ev == received'[c][Len(received'[c])]
                        IN  /\ ev.type # "error"
                            /\ ev.type = "history" => ev.messages = <<>>
        /\ initialized =>
              /\ initialized'
              /\ pending' \subseteq pending ]_vars

\* a registration was answered from a file with a damaged element: the store
\* is initialized and empty, the history sent is empty, no load is pending
C20_Witness ==
    /\ initialized
    /\ file.kind = "array"
    /\ \E i \in 1..Len(file.elems) : ~isValidMessage(file.elems[i])
    /\ \E i \in 1..Len(file.elems) : isValidMessage(file.elems[i])
    /\ messages = <<>>
    /\ pending = {}
    /\ \E c \in Registered : received[c] = <<HistoryEvent(<<>>)>>

\* ---------------------------------------------------------------- C21
\* what getMessageCount() returns if called now: the lazy load first
ObservedCount ==
    IF LoadIsSync THEN getMessageCount(messages) ELSE getMessageCount(LoadResult(file))

\* no addMessage has been called or has pushed since clear() was called
NoAppendSinceClear ==
    /\ Len(appended) = clearing.appends
    /\ ~\E p \in pending : p.op = "add"

\* C21: once clear() has completed, getMessageCount() is 0 and the durable
\* file holds the empty array, and both stay so until the next addMessage,
\* also when a load was in progress or a debounced flush was pending at the
\* time of the call.
C21_ClearedStaysEmpty ==
    (clearing.state = "done" /\ NoAppendSinceClear)
        => (ObservedCount = 0 /\ file = FileArray(<<>>))

\* ---------------------------------------------------------------- C22
\* C22: for every count >= 0 and every store state, getLastMessages(count)
\* returns exactly the last min(count, getMessageCount()) messages of the
\* store, oldest first; getLastMessages(0) returns the empty sequence.
C22_LastMinCount ==
    (query.state = "done" /\ query.call = "getLastMessages")
        => query.result = LastOf(query.store, query.count)

\* ---------------------------------------------------------------- C23
\* C23: handling a disconnect for a connection that is not in the live set
\* leaves the live set unchanged; the disconnect of a registered connection
\* removes it from the live set and getConnectedClientsCount() decreases by
\* exactly one.
C23_DisconnectIdempotent ==
    [][/\ stale' # stale => connectedClients' = connectedClients
       /\ \A c \in Conns :
             (c \in Range(sockets) /\ c \notin Range(sockets'))
                 => /\ c \notin connectedClients'
                    /\ getConnectedClientsCount(connectedClients')
                           = getConnectedClientsCount(connectedClients) - 1]_vars

\* a connection that was removed and one that never registered both had a
\* disconnect handled while another connection was live
C23_Witness ==
    /\ connectedClients # {}
    /\ \E i, j \in 1..Len(stale) : stale[i].registered /\ ~stale[j].registered

\* ---------------------------------------------------------------- C24
\* a step that handles a ping
PingStep == pings'.count = pings.count + 1

\* the ping handled by the step carries a numeric timestamp
NumericPing(k) ==
    /\ PingInputs[k].isObj
    /\ PingInputs[k].type = "ping"
    /\ PingInputs[k].payload = "object"
    /\ PingInputs[k].timestamp.t = "number"

\* C24: for every ping whose payload carries a numeric timestamp t, exactly
\* one pong is emitted, to the pinging connection only, and its timestamp
\* equals t, for every numeric t including 0.
C24_PongEchoesTimestamp ==
    [][(PingStep /\ NumericPing(pings'.input))
          => received' = [received EXCEPT ![pings'.conn] =
                Append(@, PongEvent(PingInputs[pings'.input].timestamp.n))]]_vars

\* ---------------------------------------------------------------- C25
\* C25: a ping whose payload is missing or malformed produces no pong and no
\* error event; no ping, valid or not, changes the store or the durable file,
\* triggers a broadcast, or sends an event to another connection.
C25_PingTouchesNothingElse ==
    [][PingStep
          => /\ ~NumericPing(pings'.input) => received' = received
             /\ \A x \in Conns : x # pings'.conn => received'[x] = received[x]
             /\ UNCHANGED <<messages, initialized, timers, timeout, writing, file,
                            appended, broadcasts, pending>>]_vars

\* a malformed ping was handled while the store held a message and another
\* connection was open
C25_Witness ==
    /\ pings.count > 0
    /\ PingInputs[pings.input].type = "ping"
    /\ ~NumericPing(pings.input)
    /\ messages # <<>>
    /\ \E x \in Conns : x # pings.conn /\ connected[x]
    /\ \A i \in 1..Len(received[pings.conn]) : received[pings.conn][i].type # "pong"

\* ---------------------------------------------------------------- C26
\* the INTERNAL_ERROR events among the events a client received
InternalErrors(evs) ==
    Cardinality({i \in 1..Len(evs) : evs[i].type = "error" /\ evs[i].code = "INTERNAL_ERROR"})

ErrorEvents(evs) == Cardinality({i \in 1..Len(evs) : evs[i].type = "error"})

\* C26: when a failure is thrown while an accepted submission is built,
\* stored or broadcast, exactly one INTERNAL_ERROR event is emitted to the
\* originating connection, no error event goes to another connection, and the
\* failed step is not run again.
C26_FailureReportedOnce ==
    [][failures' # failures
          => LET f == failures'[Len(failures')]
             IN  /\ InternalErrors(received'[f.conn])
                       = InternalErrors(received[f.conn]) + 1
                 /\ ErrorEvents(received'[f.conn]) = ErrorEvents(received[f.conn]) + 1
                 /\ \A x \in Conns \ {f.conn} :
                       ErrorEvents(received'[x]) = ErrorEvents(received[x])
                 /\ Len(appended') <= Len(appended) + 1
                 /\ Len(broadcasts') <= Len(broadcasts) + 1]_vars

\* ---------------------------------------------------------------- C27
\* C27: a message that addMessage has pushed stays in getAllMessages() until
\* N later appends have evicted it (clear() is not called here): the store is
\* never replaced by the content of the durable file after an append.
C27_AppendedStays ==
    \A i \in 1..Len(appended) :
        Len(appended) - i < maxMessages
            => appended[i] \in Range(getAllMessages(messages))

\* ---------------------------------------------------------------- C28
\* a step in which a suspended loadMessages resumes and installs the file
LoadInstalls == pending' # pending /\ pending' \subseteq pending

\* C28: the durable file is read and installed as the in-memory sequence at
\* most once per process: no load installs the file into a store that an
\* earlier load has already initialized.
C28_LoadsAtMostOnce == [][LoadInstalls => ~initialized]_vars

\* ---------------------------------------------------------------- C29
\* C29: between the validation of an accepted submission and its broadcast no
\* other core operation runs: while a submission is suspended, no step
\* appends, broadcasts, sends a history, starts a hydration read or handles a
\* disconnect.
C29_SubmissionAtomic ==
    [][(\E p \in pending : p.op = "add" /\ p \in pending')
          => UNCHANGED <<messages, appended, broadcasts, received, sockets,
                         connectedClients, pending>>]_vars

\* ---------------------------------------------------------------- C30
\* nothing is left to run: no debounce timer is pending, no writeFile is in
\* flight and no handler is suspended
Quiescent == timers = <<>> /\ writing = <<>> /\ pending = {}

C31_FileNeverPartial ==
    [][file' # file => \E i \in 1..Len(writing) : file' = FileArray(writing[i])]_vars

NewMessagesOf(c) ==
    LET evs == SelectSeq(received[c], IsNewMessage)
    IN  [i \in 1..Len(evs) |-> evs[i].message]

\* C34: each accepted submission causes one addMessage and then one
\* broadcast: the broadcasts are the appended messages, one each and in the
\* same order, every submission that is not suspended has been appended, and
\* a connection is never sent a message that was not appended, nor the same
\* message twice.
C34_AppendThenBroadcastOnce ==
    /\ Len(broadcasts) = Len(appended)
    /\ \A i \in 1..Len(broadcasts) : broadcasts[i].msg = appended[i]
    /\ nextId - 1 = Len(appended) + Cardinality({p \in pending : p.op = "add"})
    /\ \A c \in Conns :
          LET ms == NewMessagesOf(c)
          IN  /\ \A i \in 1..Len(ms) : ms[i] \in Range(appended)
              /\ \A i, j \in 1..Len(ms) : ms[i].id = ms[j].id => i = j

\* three submissions were appended and broadcast to the open sender
C34_Witness ==
    /\ Len(appended) >= 3
    /\ \E c \in Conns : Len(NewMessagesOf(c)) >= 3

\* ---------------------------------------------------------------- C35
\* C35: in every reachable state the store's sequence is sorted by timestamp
\* in non-decreasing order, also when two submissions are in flight at the
\* same time and got their timestamps before their appends.
C35_SortedByTimestamp ==
    \A i \in 1..(Len(messages) - 1) : messages[i].timestamp <= messages[i + 1].timestamp

\* ---------------------------------------------------------------- C36
\* C36: a sequence returned by getLastMessages or getAllMessages is not
\* changed by any later addMessage or clear: the array the caller holds has
\* the length and the elements it had when it was returned.
C36_ReturnedStaysAsReturned ==
    query.state = "done" => query.held = query.result

\* a non-empty sequence was returned and a message was pushed afterwards
C36_Witness ==
    /\ query.state = "done"
    /\ query.result # <<>>
    /\ Len(appended) > query.appends
    /\ messages # query.store

\* ---------------------------------------------------------------- C37
\* C37: the id and the timestamp of every stored and broadcast message are
\* the server's: two submissions that differ only in client-supplied fields
\* other than user and content (an id, a timestamp, further keys) produce
\* messages with identical user and content, no message carries the client's
\* id or timestamp, and no two accepted messages share an id.
ClientFields(k) == RawInputs[k].value

C37_ServerProducedFields ==
    /\ \A i \in 1..Len(broadcasts) :
          LET b == broadcasts[i]
          IN  /\ b.msg.timestamp = b.recvAt
              /\ ClientFields(b.input).id.t = "number"
                    => b.msg.id # ClientFields(b.input).id.n
              /\ b.msg = appended[i]
    /\ \A i, j \in 1..Len(broadcasts) :
          /\ (/\ ClientFields(broadcasts[i].input).user = ClientFields(broadcasts[j].input).user
              /\ ClientFields(broadcasts[i].input).content
                    = ClientFields(broadcasts[j].input).content)
                => /\ broadcasts[i].msg.user = broadcasts[j].msg.user
                   /\ broadcasts[i].msg.content = broadcasts[j].msg.content
          /\ i # j => broadcasts[i].msg.id # broadcasts[j].msg.id

\* the payload was accepted once bare and once with the client's own id and
\* timestamp
C37_Witness ==
    \E i, j \in 1..Len(broadcasts) :
        /\ broadcasts[i].input = 1
        /\ broadcasts[j].input = Len(RawInputs)
        /\ ClientFields(broadcasts[j].input).id.t = "number"
        /\ ClientFields(broadcasts[j].input).timestamp.t = "number"

\* ---------------------------------------------------------------- C38
\* C38: each history event replaces the client's local list with exactly
\* the snapshot and each new_message appends exactly one message, so after
\* any sequence of connects, disconnects and reconnects the local list never
\* holds the same message id twice.
C38_NoDuplicateIds ==
    \A i, j \in 1..Len(LocalMessages) :
        LocalMessages[i].id = LocalMessages[j].id => i = j

\* the client saw a message arrive, reconnected, and received a snapshot that
\* holds that message
C38_Witness ==
    /\ nextConn > 2
    /\ \E i \in 1..Len(received[1]), j \in 1..Len(received[2]) :
          /\ received[1][i].type = "new_message"
          /\ received[2][j].type = "history"
          /\ received[1][i].message \in Range(received[2][j].messages)
    /\ LocalMessages # <<>>

====
